---- MODULE Spec2Model ----
(***************************************************************************)
(* A model of core/service_core.go: the serviceCore host context, its      *)
(* accessors, the lazily initialised metrics scope guarded by scopeMux,    *)
(* and the embeddable ServiceHostContainer.                                *)
(***************************************************************************)
EXTENDS Integers, Sequences, FiniteSets, TLC

\* ------------------------------------------------------------- bounds
\* Number of goroutines that call Metrics() concurrently.
NumCallers == 3

\* Number of SetContainer calls made on the container.
MaxSets == 2

\* Upper bound on the scopes one host may allocate (never reached by the
\* code as written: it keeps a broken variant of the model finite).
MaxScopes == 3

\* ------------------------------------------------------------- values
HostIds == {"h1", "h2"}
\* The nil ServiceHost: no host.
NilHost == "nil"
Callers == 1 .. NumCallers

\* Holders of a host's scopeMux.
NoHolder == [who |-> "free", id |-> 0]
SetupHolder == [who |-> "setup", id |-> 0]
CallerHolder(t) == [who |-> "caller", id |-> t]

\* The nil tally.Scope, the scope a metrics backend supplies during setup,
\* and the k-th scope tally.NewRootScope allocates for a host: every
\* allocation is a new object, so a new identity.
NilScope == [kind |-> "nil", host |-> "none", id |-> 0]
BackendScope(h) == [kind |-> "backend", host |-> h, id |-> 0]
NullScope(h, k) == [kind |-> "null", host |-> h, id |-> k]

\* No value has been returned yet.
NoRet == [kind |-> "none", host |-> "none", id |-> 0]

\* The nil Observer, ConfigurationProvider and Log interface values.
NilObserver == "nil"
NilProvider == "nil"
NilLog == "nil"

\* ServiceState: the zero value and a state the lifecycle moves to.
Uninitialized == "Uninitialized"
ServiceStates == {Uninitialized, "Running"}

\* The goroutine that drives the lifecycle and writes the state, and any
\* other goroutine.
Writer == "writer"
Other == "other"
Goroutines == {Writer, Other}

\* The items bag: its keys, and the mark of a key that is not in a map.
Keys == {"k"}
NoItem == "absent"
\* The map object a host's items field refers to.
MapOf(h) == [map |-> h]
EmptyMap == [k \in Keys |-> NoItem]
\* Values stored in the bag.
Vals == {"x", "y"}
\* Components that keep the map Items() returned.
Holders == {"a", "b"}
\* A holder that has not called Items().
NoRef == [host |-> NilHost, ref |-> "none"]
\* No holder has written the entry.
NoPut == [value |-> NoItem, by |-> "nobody"]

\* The ways a method of a host is reached: on the host itself, or through
\* the ServiceHost embedded in the container.
Vias == HostIds \cup {"container"}

\* ---------------------------------------------------------- construction
\* The values a serviceCore is assembled with.
FullBuild ==
    [ standardConfig |->
          [ ServiceName |-> "checkout",
            ServiceDescription |-> "checkout service",
            ServiceOwner |-> "payments",
            ServiceRoles |-> <<"writer", "api">> ],
      roles |-> <<"api">>,
      configProvider |-> "yaml",
      observer |-> "observer",
      logConfig |-> "json",
      log |-> "logger" ]

BareBuild ==
    [ standardConfig |->
          [ ServiceName |-> "billing",
            ServiceDescription |-> "",
            ServiceOwner |-> "",
            ServiceRoles |-> <<>> ],
      roles |-> <<>>,
      configProvider |-> NilProvider,
      observer |-> NilObserver,
      logConfig |-> "",
      log |-> NilLog ]

\* The two hosts of the model: one assembled with every capability, one
\* with none.
BuildOf(h) == IF h = "h1" THEN FullBuild ELSE BareBuild

\* type serviceCore struct: the fields after construction. The scope slot is
\* unset, the mutex free, the state the zero ServiceState; items refers to
\* the host's own (empty) map.
serviceCore(h, b) ==
    [ standardConfig |-> b.standardConfig,
      roles |-> b.roles,
      state |-> Uninitialized,
      configProvider |-> b.configProvider,
      scopeMux |-> NoHolder,
      scope |-> NilScope,
      observer |-> b.observer,
      items |-> MapOf(h),
      logConfig |-> b.logConfig,
      log |-> b.log ]

VARIABLES
    hosts,        \* HostIds -> serviceCore
    built,        \* HostIds -> the build each host was constructed with
    heap,         \* map object -> its entries
    pc,           \* Callers -> position inside Metrics()
    target,       \* Callers -> the host the running Metrics() call is on
    local,        \* Callers -> the value the return statement has read
    returned,     \* the callers that have come back from a Metrics() call
    rets,         \* HostIds -> every scope a Metrics() call has returned
    constructed,  \* HostIds -> number of tally.NewRootScope calls
    stores,       \* HostIds -> number of writes to the scope slot
    setupPc,      \* HostIds -> position of the setup that supplies a backend
    container,    \* the ServiceHostContainer: its embedded ServiceHost
    setLog,       \* the arguments of the SetContainer calls, in order
    pending,      \* the state write in progress, if any
    lastWrite,    \* HostIds -> the state last written, if any
    lastRead,     \* the last accessor call and what it returned
    held,         \* holder -> the map it got from Items(), and from which host
    putLog        \* host, key -> the last entry written by a holder of its map

metricsVars == << pc, target, local, returned, setupPc >>
scopeVars == << rets, constructed, stores >>
itemsVars == << held, putLog >>
hostVars == << container, setLog, pending, lastWrite, lastRead, heap,
              itemsVars >>
vars == << hosts, built, metricsVars, scopeVars, hostVars >>

\* No state write is in progress; no state has been written.
NoPending == [host |-> NilHost, value |-> Uninitialized]
NoWrite == "none"

\* No accessor has been called.
NoRead ==
    [ op |-> "none", route |-> "direct", host |-> NilHost, caller |-> Other,
      resolved |-> FALSE, panicked |-> FALSE, value |-> "", after |-> NoWrite,
      sets |-> 0, mutex |-> NoHolder ]

Init ==
    /\ built = [h \in HostIds |-> BuildOf(h)]
    /\ hosts = [h \in HostIds |-> serviceCore(h, built[h])]
    /\ heap = [m \in {MapOf(h) : h \in HostIds} |-> EmptyMap]
    /\ pc = [t \in Callers |-> "idle"]
    /\ target = [t \in Callers |-> NilHost]
    /\ local = [t \in Callers |-> NoRet]
    /\ returned = {}
    /\ rets = [h \in HostIds |-> {}]
    /\ constructed = [h \in HostIds |-> 0]
    /\ stores = [h \in HostIds |-> 0]
    /\ setupPc = [h \in HostIds |-> "idle"]
    /\ container = [ServiceHost |-> NilHost]
    /\ setLog = << >>
    /\ pending = NoPending
    /\ lastWrite = [h \in HostIds |-> NoWrite]
    /\ lastRead = NoRead
    /\ held = [c \in Holders |-> NoRef]
    /\ putLog = [h \in HostIds |-> [k \in Keys |-> NoPut]]

\* ------------------------------------------------------------ Metrics()
\* Variant: a lock-free fast path, the call reads a filled slot without locking.
MetricsCallFastPath(t, h) ==
    /\ pc[t] = "idle"
    /\ pc' = [pc EXCEPT ![t] =
                 IF hosts[h].scope # NilScope THEN "return" ELSE "lock"]
    /\ target' = [target EXCEPT ![t] = h]
    /\ UNCHANGED << hosts, built, local, returned, rets, constructed, stores,
                    setupPc, hostVars >>

\* A goroutine enters Metrics() on host h.
MetricsCall(t, h) ==
    /\ pc[t] = "idle"
    /\ pc' = [pc EXCEPT ![t] = "lock"]
    /\ target' = [target EXCEPT ![t] = h]
    /\ UNCHANGED << hosts, built, local, returned, rets, constructed, stores,
                    setupPc, hostVars >>

\* Variant: the Lock() call does not wait for the holder (no exclusion).
MetricsLockNoWait(t) ==
    /\ pc[t] = "lock"
    /\ hosts' = [hosts EXCEPT ![target[t]].scopeMux = CallerHolder(t)]
    /\ pc' = [pc EXCEPT ![t] = "check"]
    /\ UNCHANGED << built, target, local, returned, rets, constructed, stores,
                    setupPc, hostVars >>

\* s.scopeMux.Lock(): blocks while another holder has the mutex.
MetricsLock(t) ==
    /\ pc[t] = "lock"
    /\ hosts[target[t]].scopeMux = NoHolder
    /\ hosts' = [hosts EXCEPT ![target[t]].scopeMux = CallerHolder(t)]
    /\ pc' = [pc EXCEPT ![t] = "check"]
    /\ UNCHANGED << built, target, local, returned, rets, constructed, stores,
                    setupPc, hostVars >>

\* Variant: the test is inverted (if s.scope != nil).
MetricsCheckInverted(t) ==
    /\ pc[t] = "check"
    /\ pc' = [pc EXCEPT ![t] =
                 IF hosts[target[t]].scope # NilScope THEN "new" ELSE "return"]
    /\ UNCHANGED << hosts, built, target, local, returned, rets, constructed,
                    stores, setupPc, hostVars >>

\* Variant: the slot is filled without testing it.
MetricsCheckAlwaysNew(t) ==
    /\ pc[t] = "check"
    /\ pc' = [pc EXCEPT ![t] = "new"]
    /\ UNCHANGED << hosts, built, target, local, returned, rets, constructed,
                    stores, setupPc, hostVars >>

\* if s.scope == nil
MetricsCheck(t) ==
    /\ pc[t] = "check"
    /\ pc' = [pc EXCEPT ![t] =
                 IF hosts[target[t]].scope = NilScope THEN "new" ELSE "return"]
    /\ UNCHANGED << hosts, built, target, local, returned, rets, constructed,
                    stores, setupPc, hostVars >>

\* Variant: the new scope is assigned to a shadowing local (scope := ...), so
\* the field is not written.
MetricsNewShadowed(t) ==
    /\ pc[t] = "new"
    /\ constructed[target[t]] < MaxScopes
    /\ constructed' = [constructed EXCEPT ![target[t]] = @ + 1]
    /\ pc' = [pc EXCEPT ![t] = "return"]
    /\ UNCHANGED << hosts, built, target, local, returned, rets, stores,
                    setupPc, hostVars >>

\* s.scope = tally.NewRootScope("", nil, tally.NullStatsReporter, time.Second)
MetricsNew(t) ==
    /\ pc[t] = "new"
    /\ constructed[target[t]] < MaxScopes
    /\ LET h == target[t]
           k == constructed[h] + 1
       IN  /\ constructed' = [constructed EXCEPT ![h] = k]
           /\ stores' = [stores EXCEPT ![h] = @ + 1]
           /\ hosts' = [hosts EXCEPT ![h].scope = NullScope(h, k)]
    /\ pc' = [pc EXCEPT ![t] = "return"]
    /\ UNCHANGED << built, target, local, returned, rets, setupPc, hostVars >>

\* Variant: the call returns a scope of its own instead of the cached one.
MetricsReturnFresh(t) ==
    /\ pc[t] = "return"
    /\ constructed[target[t]] < MaxScopes
    /\ constructed' = [constructed EXCEPT ![target[t]] = @ + 1]
    /\ local' = [local EXCEPT ![t] =
                    NullScope(target[t], constructed[target[t]] + 1)]
    /\ pc' = [pc EXCEPT ![t] = "unlock"]
    /\ UNCHANGED << hosts, built, target, returned, rets, stores, setupPc,
                    hostVars >>

\* return s.scope: the result is read before the deferred Unlock runs.
MetricsReturn(t) ==
    /\ pc[t] = "return"
    /\ local' = [local EXCEPT ![t] = hosts[target[t]].scope]
    /\ pc' = [pc EXCEPT ![t] = "unlock"]
    /\ UNCHANGED << hosts, built, target, returned, rets, constructed, stores,
                    setupPc, hostVars >>

\* Variant: the call returns without releasing the mutex (no deferred Unlock).
MetricsUnlockKept(t) ==
    /\ pc[t] = "unlock"
    /\ returned' = returned \cup {t}
    /\ rets' = [rets EXCEPT ![target[t]] = @ \cup {local[t]}]
    /\ local' = [local EXCEPT ![t] = NoRet]
    /\ pc' = [pc EXCEPT ![t] = "idle"]
    /\ target' = [target EXCEPT ![t] = NilHost]
    /\ UNCHANGED << hosts, built, constructed, stores, setupPc, hostVars >>

\* defer s.scopeMux.Unlock(): the mutex is released and the caller has the
\* value the return statement read.
MetricsUnlock(t) ==
    /\ pc[t] = "unlock"
    /\ hosts' = [hosts EXCEPT ![target[t]].scopeMux = NoHolder]
    /\ returned' = returned \cup {t}
    /\ rets' = [rets EXCEPT ![target[t]] = @ \cup {local[t]}]
    /\ local' = [local EXCEPT ![t] = NoRet]
    /\ pc' = [pc EXCEPT ![t] = "idle"]
    /\ target' = [target EXCEPT ![t] = NilHost]
    /\ UNCHANGED << built, constructed, stores, setupPc, hostVars >>

\* ---------------------------------------------------------------- setup
\* Process setup supplies a metrics backend for host h: it takes the slot's
\* lock ...
SetupLock(h) ==
    /\ setupPc[h] = "idle"
    /\ hosts[h].scopeMux = NoHolder
    /\ hosts' = [hosts EXCEPT ![h].scopeMux = SetupHolder]
    /\ setupPc' = [setupPc EXCEPT ![h] = "locked"]
    /\ UNCHANGED << built, pc, target, local, returned, rets, constructed,
                    stores, hostVars >>

\* ... and stores the backend's scope in a slot that is still unset (a slot
\* that is set is never replaced), then releases the lock.
SetupStore(h) ==
    /\ setupPc[h] = "locked"
    /\ IF hosts[h].scope = NilScope
         THEN /\ hosts' = [hosts EXCEPT ![h].scope = BackendScope(h),
                                         ![h].scopeMux = NoHolder]
              /\ stores' = [stores EXCEPT ![h] = @ + 1]
         ELSE /\ hosts' = [hosts EXCEPT ![h].scopeMux = NoHolder]
              /\ UNCHANGED stores
    /\ setupPc' = [setupPc EXCEPT ![h] = "done"]
    /\ UNCHANGED << built, pc, target, local, returned, rets, constructed, hostVars >>

\* --------------------------------------------------------- accessors
\* func (s *serviceCore) Name() string
Name(s) == s.standardConfig.ServiceName

\* func (s *serviceCore) Description() string
Description(s) == s.standardConfig.ServiceDescription

\* func (s *serviceCore) Owner() string
Owner(s) == s.standardConfig.ServiceOwner

\* Variant: State() answers from a copy of the struct taken at construction.
StateZero(s) == Uninitialized

\* func (s *serviceCore) State() ServiceState
State(s) == s.state

\* Variant: Roles() returns the roles field instead of the configured roles.
RolesField(s) == s.roles

\* func (s *serviceCore) Roles() []string
Roles(s) == s.standardConfig.ServiceRoles

\* func (s *serviceCore) Items() map[string]interface{}: the map itself, not
\* a copy of its entries.
Items(s) == s.items

\* Variant: Observer() insists on an observer and panics without one.
ObserverRequired(s) ==
    IF s.observer = NilObserver THEN "panic: no observer" ELSE s.observer

\* func (s *serviceCore) Observer() Observer
Observer(s) == s.observer

\* func (s *serviceCore) Config() config.ConfigurationProvider
Config(s) == s.configProvider

\* Variant: Logger() returns the logger tagged with the current state.
LoggerWithState(s) == << s.log, s.state >>

\* func (s *serviceCore) Logger() ulog.Log
Logger(s) == s.log

\* The accessors that only read a field, by method name.
ReadOps ==
    { "Name", "Description", "Owner", "Roles", "Items", "Observer", "Config",
      "Logger" }

Accessor(op, s) ==
    CASE op = "Name" -> Name(s)
      [] op = "Description" -> Description(s)
      [] op = "Owner" -> Owner(s)
      [] op = "Roles" -> Roles(s)
      [] op = "Items" -> Items(s)
      [] op = "Observer" -> Observer(s)
      [] op = "Config" -> Config(s)
      [] op = "Logger" -> Logger(s)

\* ------------------------------------------------------------ container
\* The host a call reaches: the host itself, or the ServiceHost embedded in
\* the container (a method of the embedded interface is promoted to the
\* container, and the call goes to whatever the field holds).
Receiver(via) == IF via = "container" THEN container.ServiceHost ELSE via

RouteOf(via) == IF via = "container" THEN "container" ELSE "direct"

\* type ServiceHost interface: its method set. A ServiceHostContainer embeds
\* a ServiceHost, so these are the methods promoted to the container.
ServiceHostMethods ==
    { "Name", "Description", "Roles", "State", "Metrics", "Observer", "Config",
      "Items", "Logger" }

\* Whether the selector op resolves to a method: every method of *serviceCore
\* on a host, the promoted methods of ServiceHost on the container.
Resolves(op, via) == via = "container" => op \in ServiceHostMethods

\* For a call through the container, the number of SetContainer calls made
\* before it.
SetsSeen(via) == IF via = "container" THEN Len(setLog) ELSE 0

\* A selector that names no method of the container: there is no call.
NoMethod(op, via, g) ==
    [ op |-> op, route |-> RouteOf(via), host |-> NilHost, caller |-> g,
      resolved |-> FALSE, panicked |-> FALSE, value |-> "", after |-> NoWrite,
      sets |-> SetsSeen(via), mutex |-> NoHolder ]

\* A call through a nil ServiceHost: a nil dereference, no value.
Panic(op, via, g) ==
    [ op |-> op, route |-> RouteOf(via), host |-> NilHost, caller |-> g,
      resolved |-> TRUE, panicked |-> TRUE, value |-> "", after |-> NoWrite,
      sets |-> SetsSeen(via), mutex |-> NoHolder ]

\* A call that returned v; mutex is the holder of the receiver's scopeMux
\* while the call ran.
Returned(op, via, g, v, w) ==
    [ op |-> op, route |-> RouteOf(via), host |-> Receiver(via), caller |-> g,
      resolved |-> TRUE, panicked |-> FALSE, value |-> v, after |-> w,
      sets |-> SetsSeen(via), mutex |-> hosts[Receiver(via)].scopeMux ]

\* Variant: a write-once container, which keeps the first host it was given.
SetContainerOnce(sh) ==
    /\ Len(setLog) < MaxSets
    /\ container' =
           IF container.ServiceHost = NilHost
             THEN [container EXCEPT !.ServiceHost = sh]
             ELSE container
    /\ setLog' = Append(setLog, sh)
    /\ UNCHANGED << hosts, built, metricsVars, scopeVars, pending, lastWrite,
                    lastRead, heap,
                    itemsVars >>

\* Variant: SetContainer has a value receiver, so it sets a copy of the
\* container.
SetContainerByValue(sh) ==
    /\ Len(setLog) < MaxSets
    /\ setLog' = Append(setLog, sh)
    /\ UNCHANGED << hosts, built, metricsVars, scopeVars, container, pending,
                    lastWrite, lastRead, heap,
                    itemsVars >>

\* func (s *ServiceHostContainer) SetContainer(sh ServiceHost)
SetContainer(sh) ==
    /\ Len(setLog) < MaxSets
    /\ container' = [container EXCEPT !.ServiceHost = sh]
    /\ setLog' = Append(setLog, sh)
    /\ UNCHANGED << hosts, built, metricsVars, scopeVars, pending, lastWrite,
                    lastRead, heap,
                    itemsVars >>

\* Variant: Logger() installs a default logger in a host that has none.
CallDefaulting(op, via) ==
    /\ lastRead' =
           IF ~Resolves(op, via)
             THEN NoMethod(op, via, Other)
             ELSE IF Receiver(via) = NilHost
                    THEN Panic(op, via, Other)
                    ELSE Returned(op, via, Other,
                                  Accessor(op, hosts[Receiver(via)]), NoWrite)
    /\ hosts' =
           IF op = "Logger" /\ Receiver(via) # NilHost
             THEN [hosts EXCEPT ![Receiver(via)].log =
                                    IF @ = NilLog THEN "default" ELSE @]
             ELSE hosts
    /\ UNCHANGED << built, metricsVars, scopeVars, container, setLog,
                    pending, lastWrite, heap,
                    itemsVars >>

\* Variant: the accessors take the scope mutex, so a call waits for its holder.
CallLocked(op, via) ==
    /\ Receiver(via) # NilHost => hosts[Receiver(via)].scopeMux = NoHolder
    /\ lastRead' =
           IF ~Resolves(op, via)
             THEN NoMethod(op, via, Other)
             ELSE IF Receiver(via) = NilHost
                    THEN Panic(op, via, Other)
                    ELSE Returned(op, via, Other,
                                  Accessor(op, hosts[Receiver(via)]), NoWrite)
    /\ UNCHANGED << hosts, built, metricsVars, scopeVars, container, setLog,
                    pending, lastWrite, heap,
                    itemsVars >>

\* A call of one of the field accessors, on a host or through the container.
Call(op, via) ==
    /\ lastRead' =
           IF ~Resolves(op, via)
             THEN NoMethod(op, via, Other)
             ELSE IF Receiver(via) = NilHost
                    THEN Panic(op, via, Other)
                    ELSE Returned(op, via, Other,
                                  Accessor(op, hosts[Receiver(via)]), NoWrite)
    /\ UNCHANGED << hosts, built, metricsVars, scopeVars, container, setLog,
                    pending, lastWrite, heap,
                    itemsVars >>

\* A call of State() by goroutine g. The field is read with no
\* synchronisation: a goroutine other than the writer that reads while a write
\* is in progress gets the old or the new value. The writer is not inside a
\* write of its own when it calls State().
CallState(g, via) ==
    /\ g = Writer => pending = NoPending
    /\ IF Receiver(via) = NilHost
         THEN lastRead' = Panic("State", via, g)
         ELSE LET r == Receiver(via)
              IN  \E v \in {State(hosts[r])} \cup
                           {pending.value : x \in {p \in {pending} : p.host = r}} :
                     lastRead' = Returned("State", via, g, v, lastWrite[r])
    /\ UNCHANGED << hosts, built, metricsVars, scopeVars, container, setLog,
                    pending, lastWrite, heap,
                    itemsVars >>

\* A whole Metrics() call by a goroutine that no other call overlaps: lock,
\* fill the slot if it is nil, read it, unlock.
Metrics(via) ==
    /\ IF Receiver(via) = NilHost
         THEN /\ lastRead' = Panic("Metrics", via, Other)
              /\ UNCHANGED << hosts, scopeVars >>
         ELSE LET r == Receiver(via)
                  fill == hosts[r].scope = NilScope
                  k == constructed[r] + 1
                  scope == IF fill THEN NullScope(r, k) ELSE hosts[r].scope
              IN  /\ hosts[r].scopeMux = NoHolder
                  /\ fill => constructed[r] < MaxScopes
                  /\ hosts' = [hosts EXCEPT ![r].scope = scope]
                  /\ constructed' =
                         [constructed EXCEPT ![r] = IF fill THEN k ELSE @]
                  /\ stores' = [stores EXCEPT ![r] = IF fill THEN @ + 1 ELSE @]
                  /\ rets' = [rets EXCEPT ![r] = @ \cup {scope}]
                  /\ lastRead' = Returned("Metrics", via, Other, scope, NoWrite)
    /\ UNCHANGED << built, metricsVars, container, setLog, pending, lastWrite,
                    heap, itemsVars >>

\* ------------------------------------------------------ lifecycle state
\* The lifecycle writer starts to store v in the state field of host h ...
SetStateBegin(h, v) ==
    /\ pending = NoPending
    /\ pending' = [host |-> h, value |-> v]
    /\ UNCHANGED << hosts, built, metricsVars, scopeVars, container, setLog,
                    lastWrite, lastRead, heap,
                    itemsVars >>

\* ... and the store completes.
SetStateEnd ==
    /\ pending # NoPending
    /\ hosts' = [hosts EXCEPT ![pending.host].state = pending.value]
    /\ lastWrite' = [lastWrite EXCEPT ![pending.host] = pending.value]
    /\ pending' = NoPending
    /\ UNCHANGED << built, metricsVars, scopeVars, container, setLog, lastRead,
                    heap, itemsVars >>

\* ----------------------------------------------------------------- spec
Next ==
    \/ \E t \in Callers, h \in HostIds : MetricsCall(t, h)
    \/ \E t \in Callers : MetricsLock(t)
    \/ \E t \in Callers : MetricsCheck(t)
    \/ \E t \in Callers : MetricsNew(t)
    \/ \E t \in Callers : MetricsReturn(t)
    \/ \E t \in Callers : MetricsUnlock(t)
    \/ \E h \in HostIds : SetupLock(h)
    \/ \E h \in HostIds : SetupStore(h)

Spec == Init /\ [][Next]_vars

\* Fair scheduling: a goroutine that can take its next step inside Metrics()
\* or inside setup eventually takes it, and a goroutine waiting in Lock() is
\* not passed over forever (sync.Mutex hands the lock to a starving waiter).
Fairness ==
    /\ \A t \in Callers :
           /\ SF_vars(MetricsLock(t))
           /\ WF_vars(MetricsCheck(t))
           /\ WF_vars(MetricsNew(t))
           /\ WF_vars(MetricsReturn(t))
           /\ WF_vars(MetricsUnlock(t))
    /\ \A h \in HostIds : WF_vars(SetupStore(h))

\* Contention on one mutex: every caller calls Metrics() on the same host,
\* while setup supplies that host's backend.
Contended == "h1"

NextContended ==
    \/ \E t \in Callers : MetricsCall(t, Contended)
    \/ \E t \in Callers : MetricsLock(t)
    \/ \E t \in Callers : MetricsCheck(t)
    \/ \E t \in Callers : MetricsNew(t)
    \/ \E t \in Callers : MetricsReturn(t)
    \/ \E t \in Callers : MetricsUnlock(t)
    \/ SetupLock(Contended)
    \/ SetupStore(Contended)

FairSpec == Init /\ [][NextContended]_vars /\ Fairness

\* ------------------------------------------------------------- items bag
\* Variant: Items() returns a copy of the bag, a new map for each holder.
TakeItemsCopy(c, h) ==
    LET copy == [map |-> h, copy |-> c]
    IN  /\ held' = [held EXCEPT ![c] = [host |-> h, ref |-> copy]]
        /\ heap' = [m \in DOMAIN heap \cup {copy} |->
                        IF m = copy THEN heap[Items(hosts[h])] ELSE heap[m]]
        /\ lastRead' = Returned("Items", h, Other, copy, NoWrite)
        /\ UNCHANGED << hosts, built, metricsVars, scopeVars, container,
                        setLog, pending, lastWrite, putLog >>

\* Holder c calls Items() on host h and keeps the map it returns.
TakeItems(c, h) ==
    /\ held' = [held EXCEPT ![c] = [host |-> h, ref |-> Items(hosts[h])]]
    /\ lastRead' = Returned("Items", h, Other, Items(hosts[h]), NoWrite)
    /\ UNCHANGED << hosts, built, metricsVars, scopeVars, container, setLog,
                    pending, lastWrite, heap, putLog >>

\* What holder c reads at key k of the map it holds.
ItemsGet(c, k) == heap[held[c].ref][k]

\* Holder c adds or changes an entry of the map it holds: m[k] = v.
ItemsPut(c, k, v) ==
    /\ held[c] # NoRef
    /\ heap' = [heap EXCEPT ![held[c].ref][k] = v]
    /\ putLog' = [putLog EXCEPT ![held[c].host][k] = [value |-> v, by |-> c]]
    /\ UNCHANGED << hosts, built, metricsVars, scopeVars, container, setLog,
                    pending, lastWrite, lastRead, held >>

\* Holder c removes an entry of the map it holds: delete(m, k).
ItemsDelete(c, k) ==
    /\ held[c] # NoRef
    /\ heap[held[c].ref][k] # NoItem
    /\ heap' = [heap EXCEPT ![held[c].ref][k] = NoItem]
    /\ putLog' = [putLog EXCEPT ![held[c].host][k] =
                                    [value |-> NoItem, by |-> c]]
    /\ UNCHANGED << hosts, built, metricsVars, scopeVars, container, setLog,
                    pending, lastWrite, lastRead, held >>

\* The bag and its holders.
NextItems ==
    \/ \E c \in Holders, h \in HostIds : TakeItems(c, h)
    \/ \E c \in Holders, k \in Keys, v \in Vals : ItemsPut(c, k, v)
    \/ \E c \in Holders, k \in Keys : ItemsDelete(c, k)

SpecItems == Init /\ [][NextItems]_vars

\* Readers beside Metrics() callers: the accessors are called on a host while
\* callers contend for its scope mutex.
NextReaders ==
    \/ NextContended
    \/ \E op \in ReadOps : Call(op, Contended)
    \/ CallState(Other, Contended)

SpecReaders == Init /\ [][NextReaders]_vars

\* The host as its components use it: accessors and Metrics() called on the
\* hosts and through the container, the lifecycle writer, the items bag.
NextHost ==
    \/ \E sh \in HostIds : SetContainer(sh)
    \/ \E op \in ReadOps, via \in Vias : Call(op, via)
    \/ \E g \in Goroutines, via \in Vias : CallState(g, via)
    \/ \E via \in Vias : Metrics(via)
    \/ \E h \in HostIds, v \in ServiceStates : SetStateBegin(h, v)
    \/ SetStateEnd

SpecHost == Init /\ [][NextHost]_vars

\* ================================================================ claims
\* C1: at-most-once initialisation. On a host whose scope slot starts unset
\* and that no setup touches, whatever the interleaving of the callers, at
\* most one null scope is constructed, every Metrics() call that has returned
\* returned that one scope, and once a call has returned exactly one scope
\* has been constructed.
C1_AtMostOnceInit ==
    \A h \in HostIds :
        setupPc[h] = "idle" =>
            /\ constructed[h] <= 1
            /\ rets[h] \subseteq {NullScope(h, 1)}
            /\ rets[h] # {} => constructed[h] = 1

\* All the callers have come back from Metrics() on h1, to which no backend
\* was supplied, with the one scope that was constructed.
C1_Witness ==
    /\ returned = Callers
    /\ setupPc["h1"] = "idle"
    /\ rets["h1"] = {NullScope("h1", 1)}
    /\ rets["h2"] = {}
    /\ constructed["h1"] = 1

\* C2: referential stability. A scope slot that is non-nil keeps its value
\* in every step, and once some Metrics() call on a host has returned a
\* scope, no step adds a different scope to what the calls on that host
\* have returned.
C2_ReferentialStability ==
    [][\A h \in HostIds :
           /\ hosts[h].scope # NilScope => hosts'[h].scope = hosts[h].scope
           /\ rets[h] # {} => rets'[h] = rets[h]]_vars

\* One caller is about to return from a call on h1 that found the slot
\* already filled, after another call on h1 has returned.
C2_Witness ==
    \E t \in Callers :
        /\ pc[t] = "unlock"
        /\ target[t] = "h1"
        /\ returned # {}
        /\ rets["h1"] # {}
        /\ rets["h2"] = {}
        /\ local[t] \in rets["h1"]

\* C3: every Metrics() call returns a non-nil scope. No call has returned
\* nil, and a call that is at or past its return statement finds the slot
\* filled: the store precedes every read of the returned value.
C3_NonNil ==
    /\ \A h \in HostIds : NilScope \notin rets[h]
    /\ \A t \in Callers :
           /\ pc[t] \in {"return", "unlock"} =>
                  hosts[target[t]].scope # NilScope
           /\ pc[t] = "unlock" => local[t] = hosts[target[t]].scope

\* A call that found the slot nil and filled it is about to return the new
\* scope.
C3_Witness ==
    \E t \in Callers :
        /\ pc[t] = "unlock"
        /\ rets[target[t]] = {}
        /\ local[t] = NullScope(target[t], 1)

\* C4: with a setup that supplies a backend scope before or while Metrics()
\* is called, the slot of a host is written at most once, and all Metrics()
\* calls on a host return one scope, the one the slot holds.
C4_SetupRace ==
    \A h \in HostIds :
        /\ stores[h] <= 1
        /\ Cardinality(rets[h]) <= 1
        /\ rets[h] \subseteq {hosts[h].scope}

\* The setup ran on h1 after a Metrics() call had filled the slot: it left
\* the slot alone, and a call has returned the null scope.
C4_Witness ==
    /\ setupPc["h1"] = "done"
    /\ constructed["h1"] = 1
    /\ stores["h1"] = 1
    /\ rets["h1"] = {NullScope("h1", 1)}

\* C5: while the slot of a host holds the scope the setup stored, no null
\* scope has been constructed for the host and every Metrics() call on it
\* has returned the setup's scope; and a call that is about to construct a
\* null scope is on a host whose slot is nil.
C5_BackendKept ==
    /\ \A h \in HostIds :
           hosts[h].scope = BackendScope(h) =>
               /\ constructed[h] = 0
               /\ rets[h] \subseteq {BackendScope(h)}
    /\ \A t \in Callers : pc[t] = "new" => hosts[target[t]].scope = NilScope

\* The setup stored its scope in h1 and a Metrics() call has returned it.
C5_Witness ==
    /\ hosts["h1"].scope = BackendScope("h1")
    /\ rets["h1"] = {BackendScope("h1")}
    /\ constructed["h1"] = 0
    /\ returned # {}

\* The accessors of the fields that are fixed at construction.
ImmutableOps == {"Name", "Description", "Owner", "Roles", "Config", "Logger"}

\* C6: idempotent immutable reads. Whatever the host has been through
\* (Metrics() calls, writes of the lifecycle state, accessor calls,
\* SetContainer), Name, Description, Owner, Roles, Config and Logger return
\* on every host what they returned on it when it was constructed: calls
\* made at any two moments of its life return the same value.
C6_ImmutableReads ==
    \A h \in HostIds : \A op \in ImmutableOps :
        Accessor(op, hosts[h]) = Accessor(op, serviceCore(h, built[h]))

\* An immutable accessor is called on a host whose scope slot has been
\* filled by a Metrics() call and whose state has been written.
C6_Witness ==
    /\ lastRead.op \in ImmutableOps
    /\ lastRead.route = "direct"
    /\ hosts[lastRead.host].scope # NilScope
    /\ lastWrite[lastRead.host] # NoWrite
    /\ hosts[lastRead.host].state # Uninitialized

\* C7: accessors return what the host was constructed with. A Name() call
\* that returned gave the configured service name, and a Roles() call gave
\* the configured roles, the same elements in the same order.
C7_ConstructedValues ==
    (lastRead.op \in {"Name", "Roles"} /\ lastRead.resolved
         /\ ~lastRead.panicked) =>
        LET b == built[lastRead.host].standardConfig
        IN  /\ lastRead.op = "Name" => lastRead.value = b.ServiceName
            /\ lastRead.op = "Roles" => lastRead.value = b.ServiceRoles

\* Roles() on the host built as "checkout" with roles writer, api returned
\* those two roles in that order.
C7_Witness ==
    /\ lastRead.op = "Roles"
    /\ lastRead.route = "direct"
    /\ Name(hosts[lastRead.host]) = "checkout"
    /\ lastRead.value = << "writer", "api" >>

\* C8: a State() call by the lifecycle writer, made after the writer has
\* written the state of that host, returns the value the writer wrote last.
C8_StateReadsLastWrite ==
    (lastRead.op = "State" /\ lastRead.caller = Writer /\ ~lastRead.panicked
         /\ lastRead.after # NoWrite) =>
        lastRead.value = lastRead.after

\* The writer set the state to Running and its State() call returned Running.
C8_Witness ==
    /\ lastRead.op = "State"
    /\ lastRead.caller = Writer
    /\ lastRead.route = "direct"
    /\ lastRead.after = "Running"
    /\ lastRead.value = "Running"

\* C9: absent-capability safety. An accessor called on a host itself always
\* returns, never panics; on a host built with no observer, configuration
\* provider or logger, Observer(), Config() and Logger() return the nil value.
C9_AbsentCapabilities ==
    (lastRead.op # "none" /\ lastRead.route = "direct") =>
        /\ lastRead.resolved
        /\ ~lastRead.panicked
        /\ (lastRead.op = "Observer"
               /\ built[lastRead.host].observer = NilObserver) =>
               lastRead.value = NilObserver
        /\ (lastRead.op = "Config"
               /\ built[lastRead.host].configProvider = NilProvider) =>
               lastRead.value = NilProvider
        /\ (lastRead.op = "Logger" /\ built[lastRead.host].log = NilLog) =>
               lastRead.value = NilLog

\* Observer() was called on the host built with no observer, provider or
\* logger, and returned nil.
C9_Witness ==
    /\ lastRead.op = "Observer"
    /\ lastRead.route = "direct"
    /\ built[lastRead.host] = BareBuild
    /\ lastRead.value = NilObserver

\* The read operations of a host context, Metrics() included.
HostOps == ReadOps \cup {"State", "Metrics"}

\* C10: container delegation. A call of any read operation of the host
\* context made through a container that SetContainer(h) has populated once
\* is a call that exists, returns, reaches h and gives what the operation
\* gives on h.
C10_Delegation ==
    (lastRead.op \in HostOps /\ lastRead.route = "container"
         /\ lastRead.sets = 1) =>
        LET h == setLog[1]
        IN  /\ lastRead.resolved
            /\ ~lastRead.panicked
            /\ lastRead.host = h
            /\ lastRead.op \in ReadOps =>
                   lastRead.value = Accessor(lastRead.op, hosts[h])
            /\ lastRead.op = "Metrics" => lastRead.value = hosts[h].scope
            /\ (lastRead.op = "State" /\ lastRead.caller = Writer) =>
                   lastRead.value =
                       IF lastRead.after = NoWrite
                         THEN Uninitialized
                         ELSE lastRead.after

\* C11 as claimed: the reference the container holds is written at most
\* once, so after any sequence of SetContainer calls the container holds the
\* host of the first call.
C11_SetOnce ==
    setLog # << >> => container.ServiceHost = setLog[1]

\* C11: the container holds one reference, the argument of the latest
\* SetContainer call (nil before the first), and a call through the
\* container reaches the host of the latest SetContainer call made before it.
C11_LastSetWins ==
    /\ container.ServiceHost =
           IF setLog = << >> THEN NilHost ELSE setLog[Len(setLog)]
    /\ (lastRead.route = "container" /\ lastRead.resolved
            /\ lastRead.sets >= 1) =>
           /\ ~lastRead.panicked
           /\ lastRead.host = setLog[lastRead.sets]

\* After SetContainer(h1) and then SetContainer(h2), a call through the
\* container reached h2.
C11_Witness ==
    /\ Len(setLog) >= 2
    /\ setLog[1] = "h1"
    /\ setLog[2] = "h2"
    /\ lastRead.route = "container"
    /\ lastRead.sets = 2
    /\ lastRead.host = "h2"

\* C12: frame. A step that is not a write of the lifecycle state (a call of
\* Name, Description, Owner, Roles, State, Items, Observer, Config, Logger or
\* Metrics, or SetContainer) leaves every field of every host and the entries
\* of every items map unchanged, except that a Metrics() call may change the
\* scope slot of the host it is called on, and only from nil to a scope.
C12_Frame ==
    [][pending' = pending =>
           /\ heap' = heap
           /\ \A h \in HostIds :
                  \/ hosts'[h] = hosts[h]
                  \/ /\ lastRead'.op = "Metrics"
                     /\ lastRead'.host = h
                     /\ hosts[h].scope = NilScope
                     /\ hosts'[h].scope # NilScope
                     /\ hosts'[h] = [hosts[h] EXCEPT !.scope = hosts'[h].scope]
      ]_vars

\* Items() was called on a host whose scope slot a Metrics() call has filled.
C12_Witness ==
    /\ lastRead.op = "Items"
    /\ lastRead.route = "direct"
    /\ hosts[lastRead.host].scope = NullScope(lastRead.host, 1)
    /\ rets[lastRead.host] = {NullScope(lastRead.host, 1)}

\* C15: a fresh container holds no host, and a delegated call through the
\* container fails with a nil dereference exactly when it is made before any
\* SetContainer; made after SetContainer(h) with a non-nil h it returns.
C15_EmptyUntilSet ==
    /\ setLog = << >> => container.ServiceHost = NilHost
    /\ (lastRead.route = "container" /\ lastRead.resolved) =>
           (lastRead.panicked <=> lastRead.sets = 0)
    /\ (lastRead.route = "container" /\ lastRead.resolved
            /\ lastRead.sets >= 1) =>
           lastRead.host \in HostIds

\* A delegated call was made on the empty container and failed; the container
\* has been populated since.
C15_Witness ==
    /\ lastRead.route = "container"
    /\ lastRead.resolved
    /\ lastRead.panicked
    /\ lastRead.sets = 0
    /\ container.ServiceHost = "h1"

\* C16: mutual exclusion of check / fill / read. A Metrics() caller that is at
\* the emptiness test, the fill, the read of the returned value or the
\* deferred unlock holds the scope mutex of its host, on first and on later
\* calls alike, so at most one caller per host is between Lock and Unlock, and
\* none while setup holds the lock.
C16_MutualExclusion ==
    /\ \A t \in Callers :
           pc[t] \in {"check", "new", "return", "unlock"} =>
               hosts[target[t]].scopeMux = CallerHolder(t)
    /\ \A t1, t2 \in Callers :
           (/\ t1 # t2
            /\ pc[t1] \in {"check", "new", "return", "unlock"}
            /\ pc[t2] \in {"check", "new", "return", "unlock"}) =>
               target[t1] # target[t2]
    /\ \A t \in Callers :
           pc[t] \in {"idle", "lock"} =>
               \A h \in HostIds : hosts[h].scopeMux # CallerHolder(t)

\* After the scope of h1 was initialised and returned, one caller is at the
\* read of the returned value holding the mutex while another waits at Lock.
C16_Witness ==
    \E t1, t2 \in Callers :
        /\ t1 # t2
        /\ rets["h1"] # {}
        /\ target[t1] = "h1" /\ pc[t1] = "return"
        /\ target[t2] = "h1" /\ pc[t2] = "lock"
        /\ hosts["h1"].scopeMux = CallerHolder(t1)

\* C17: lock release and termination. The scope mutex of a host is free
\* whenever no Metrics() call on it is between Lock and Unlock and setup is not
\* storing a backend, and under fair scheduling every started Metrics() call
\* returns.
C17_ReleaseAndTermination ==
    /\ [](\A h \in HostIds :
              (/\ setupPc[h] # "locked"
               /\ \A t \in Callers :
                      target[t] = h => pc[t] \in {"idle", "lock"}) =>
                  hosts[h].scopeMux = NoHolder)
    /\ \A t \in Callers : (pc[t] # "idle") ~> (pc[t] = "idle")

\* Every caller has completed a Metrics() call on a contended host and the
\* mutexes are free again.
C17_Witness ==
    /\ returned = Callers
    /\ \A t \in Callers : pc[t] = "idle"
    /\ \A h \in HostIds : hosts[h].scopeMux = NoHolder
    /\ rets["h1"] # {}

\* C13 as stated: a Metrics() caller waits at Lock() only while the first
\* access is under way, that is before any Metrics() call on the host has
\* returned.
C13_WaitsOnlyAtFirstAccess ==
    \A t \in Callers :
        (pc[t] = "lock" /\ hosts[target[t]].scopeMux # NoHolder) =>
            rets[target[t]] = {}

\* C13, amended: only Metrics() blocks. Every accessor can complete whoever
\* holds the scope mutex. A Metrics() caller at Lock() can proceed exactly when
\* the mutex is free, on a first access or a later one, and its steps after
\* Lock() never wait.
C13_OnlyMetricsBlocks ==
    /\ \A op \in ReadOps : ENABLED Call(op, Contended)
    /\ ENABLED CallState(Other, Contended)
    /\ \A t \in Callers :
           /\ pc[t] = "lock" =>
                  (ENABLED MetricsLock(t) <=>
                       hosts[target[t]].scopeMux = NoHolder)
           /\ pc[t] = "check" => ENABLED MetricsCheck(t)
           /\ pc[t] = "new" => ENABLED MetricsNew(t)
           /\ pc[t] = "return" => ENABLED MetricsReturn(t)
           /\ pc[t] = "unlock" => ENABLED MetricsUnlock(t)

\* An accessor returned while a Metrics() caller held the scope mutex, and
\* another caller waits at Lock() although the scope was already initialised
\* and returned.
C13_Witness ==
    /\ lastRead.op \in ReadOps
    /\ lastRead.mutex \in {CallerHolder(t) : t \in Callers}
    /\ \E t \in Callers :
           /\ pc[t] = "lock"
           /\ hosts[target[t]].scopeMux # NoHolder
           /\ rets[target[t]] # {}

\* C14: Items() returns the bag itself. The map a holder got from Items() is
\* the map a call of Items() on that host returns now, and a read through
\* it, like a read through the map of a later Items() call, gives the entry
\* last written or removed by any holder of that host's map.
C14_SharedByReference ==
    /\ \A c \in Holders :
           held[c] # NoRef =>
               /\ held[c].ref = Items(hosts[held[c].host])
               /\ \A k \in Keys :
                      ItemsGet(c, k) = putLog[held[c].host][k].value
    /\ \A h \in HostIds, k \in Keys :
           heap[Items(hosts[h])][k] = putLog[h][k].value
    /\ (lastRead.op = "Items" /\ lastRead.route = "direct") =>
           lastRead.value = Items(hosts[lastRead.host])

\* Holders a and b each took the map of h1 in a call of their own; b reads
\* the entry that a wrote.
C14_Witness ==
    /\ held["a"].host = "h1"
    /\ held["b"].host = "h1"
    /\ putLog["h1"]["k"] = [value |-> "x", by |-> "a"]
    /\ ItemsGet("b", "k") = "x"
    /\ lastRead.op = "Items"
====
